---------------------------- MODULE Spec2Model ----------------------------
(***************************************************************************)
(* A model of heroprotocol's HeroProtocol facade (heroprotocol.py): the    *)
(* cached protocol property, the event-stream framer                      *)
(* _decode_event_stream behind decode_replay_{game,message,tracker}_events,*)
(* the attributes decoder and the unit-tag helpers.                       *)
(*                                                                         *)
(* The bit buffer and the two type-directed decoders live in               *)
(* heroprotocol/decoders.py and the per-build tables in                    *)
(* heroprotocol/protocols/; both are modelled from the specification       *)
(* (sections 3.1, 3.4 and 4.1-4.3).                                        *)
(***************************************************************************)
EXTENDS Integers, Sequences, FiniteSets, TLC

(***************************************************************************)
(* Bounds of the model.                                                    *)
(***************************************************************************)
\* bytes of a bit-packed (game / message) inner file
MaxBytes == 3
\* wire fragments concatenated into a versioned (tracker) inner file
MaxChunks == 2
\* number the consumer's count of yielded events saturates at
MaxSeen == 3
\* accesses of the protocol property on one facade
MaxAccesses == 4
\* entries of an attributes inner file
MaxAttrs == 2
\* unit-tag arguments taken at each end of a field's range
TagSpread == 3

(***************************************************************************)
(* Arithmetic helpers.                                                     *)
(***************************************************************************)
RECURSIVE Pow2(_)
Pow2(n) == IF n = 0 THEN 1 ELSE 2 * Pow2(n - 1)

Min(a, b) == IF a < b THEN a ELSE b

\* a << n on Python's unbounded integers
Shl(a, n) == a * Pow2(n)

\* a >> n on a non-negative integer
Shr(a, n) == a \div Pow2(n)

(***************************************************************************)
(* Python integers are unbounded and a unit tag takes 32 bits, more than   *)
(* the checker's integers hold: a non-negative Python integer is kept as   *)
(* its binary digits, the least significant first, with no leading zero.   *)
(***************************************************************************)
RECURSIVE Bits(_)
Bits(n) == IF n = 0 THEN <<>> ELSE <<n % 2>> \o Bits(n \div 2)

RECURSIVE Norm(_)
Norm(b) == IF b # <<>> /\ b[Len(b)] = 0 THEN Norm(SubSeq(b, 1, Len(b) - 1)) ELSE b

Digit(b, i) == IF i <= Len(b) THEN b[i] ELSE 0

\* a << n
ShlB(a, n) == IF a = <<>> THEN <<>> ELSE [i \in 1..n |-> 0] \o a

\* a >> n
ShrB(a, n) == SubSeq(a, n + 1, Len(a))

\* a & b
AndB(a, b) == Norm([i \in 1..Min(Len(a), Len(b)) |-> a[i] * b[i]])

\* a | b
OrB(a, b) ==
    [i \in 1..(IF Len(a) > Len(b) THEN Len(a) ELSE Len(b)) |->
        IF Digit(a, i) + Digit(b, i) > 0 THEN 1 ELSE 0]

\* a + b, digit by digit from position i with a carry
RECURSIVE AddFrom(_, _, _, _)
AddFrom(a, b, i, carry) ==
    IF i > Len(a) /\ i > Len(b)
    THEN (IF carry = 1 THEN <<1>> ELSE <<>>)
    ELSE <<(Digit(a, i) + Digit(b, i) + carry) % 2>>
         \o AddFrom(a, b, i + 1, (Digit(a, i) + Digit(b, i) + carry) \div 2)

AddB(a, b) == AddFrom(a, b, 1, 0)

RECURSIVE Reverse(_)
Reverse(s) == IF s = <<>> THEN <<>> ELSE Append(Reverse(Tail(s)), Head(s))

RECURSIVE Concat(_)
Concat(ss) == IF ss = <<>> THEN <<>> ELSE Head(ss) \o Concat(Tail(ss))

\* all sequences over S of length at most n
SeqsUpTo(S, n) == UNION {[1..k -> S] : k \in 0..n}

(***************************************************************************)
(* Results of a read: err is "" or the exception raised, cur the cursor    *)
(* after the read, val the value read.                                     *)
(***************************************************************************)
Ok(cur, val) == [err |-> "", cur |-> cur, val |-> val]

Fail(e, cur) == [err |-> e, cur |-> cur, val |-> 0]

\* r, then F on its result unless r raised
Bind(r, F(_)) == CHOOSE y \in {IF x.err # "" THEN x ELSE F(x) : x \in {r}} : TRUE

(***************************************************************************)
(* BitBuffer (spec 4.1).  A cursor is [byte_index, used_bits]: the number  *)
(* of bytes loaded and the number of bits of the current byte still        *)
(* buffered.                                                               *)
(***************************************************************************)
NewBuffer == [byte_index |-> 0, used_bits |-> 0]

done(data, cur) == cur.byte_index = Len(data) /\ cur.used_bits = 0

used_bits(cur) == cur.byte_index * 8 - cur.used_bits

byte_align(cur) == [cur EXCEPT !.used_bits = 0]

\* the cursor that has delivered the first q bits
CursorAt(q) == [byte_index |-> (q + 7) \div 8, used_bits |-> (8 - (q % 8)) % 8]

\* bit q of the stream: bytes in order, the low bit of a byte first
StreamBit(data, q) == Shr(data[q \div 8 + 1], q % 8) % 2

\* n bits from bit q on, the first read the least significant
RECURSIVE BitsFrom(_, _, _)
BitsFrom(data, q, n) ==
    IF n = 0 THEN 0 ELSE StreamBit(data, q) + 2 * BitsFrom(data, q + 1, n - 1)

read_bits(data, cur, n) ==
    IF used_bits(cur) + n > 8 * Len(data) THEN Fail("TruncatedError", cur)
    ELSE IF n = 0 THEN Ok(cur, 0)
    ELSE Ok(CursorAt(used_bits(cur) + n), BitsFrom(data, used_bits(cur), n))

read_aligned_bytes(data, cur, n) ==
    IF cur.byte_index + n > Len(data) THEN Fail("TruncatedError", byte_align(cur))
    ELSE Ok([byte_index |-> cur.byte_index + n, used_bits |-> 0],
            SubSeq(data, cur.byte_index + 1, cur.byte_index + n))

(***************************************************************************)
(* Decoded values: a Struct is a Python dict (a function on field names),  *)
(* a Choice is the one-entry dict {case name: value}.                      *)
(***************************************************************************)
EmptyDict == [k \in {} |-> 0]

\* d[k] = v on a dict
Put(d, k, v) == [x \in DOMAIN d \cup {k} |-> IF x = k THEN v ELSE d[x]]

(***************************************************************************)
(* BitPackedDecoder (spec 4.2): no type tags on the wire.  ti is the       *)
(* TypeInfos table, a function from TypeId to descriptor.                  *)
(***************************************************************************)
RECURSIVE bp_instance(_, _, _, _)
RECURSIVE bp_struct(_, _, _, _, _, _)

bp_int(data, cur, bounds) ==
    Bind(read_bits(data, cur, bounds.bits),
         LAMBDA r : Ok(r.cur, bounds.offset + r.val))

bp_blob(data, cur, bounds) ==
    Bind(bp_int(data, cur, bounds),
         LAMBDA n : read_aligned_bytes(data, n.cur, n.val))

bp_choice(ti, data, cur, d) ==
    Bind(bp_int(data, cur, d),
         LAMBDA tag :
            IF tag.val \notin DOMAIN d.cases THEN Fail("CorruptedError", tag.cur)
            ELSE Bind(bp_instance(ti, data, tag.cur, d.cases[tag.val].typeid),
                      LAMBDA v : Ok(v.cur, Put(EmptyDict, d.cases[tag.val].name, v.val))))

bp_struct(ti, data, cur, fields, i, acc) ==
    IF i > Len(fields) THEN Ok(cur, acc)
    ELSE Bind(bp_instance(ti, data, cur, fields[i].typeid),
              LAMBDA v : bp_struct(ti, data, v.cur, fields, i + 1,
                                   Put(acc, fields[i].name, v.val)))

bp_instance(ti, data, cur, typeid) ==
    CASE ti[typeid].t = "_int" -> bp_int(data, cur, ti[typeid])
      [] ti[typeid].t = "_blob" -> bp_blob(data, cur, ti[typeid])
      [] ti[typeid].t = "_choice" -> bp_choice(ti, data, cur, ti[typeid])
      [] ti[typeid].t = "_struct" ->
            bp_struct(ti, data, cur, ti[typeid].fields, 1, EmptyDict)

(***************************************************************************)
(* VersionedDecoder (spec 4.3): every value is preceded by a kind byte.    *)
(***************************************************************************)
\* the bytes of a vint after the first, while the last one read has its high
\* bit set
RECURSIVE v_vint_more(_, _, _, _, _)
v_vint_more(data, cur, b, magnitude, shift) ==
    IF b < 128 THEN Ok(cur, magnitude)
    ELSE Bind(read_bits(data, cur, 8),
              LAMBDA r : v_vint_more(data, r.cur, r.val,
                                     magnitude + Shl(r.val % 128, shift), shift + 7))

v_vint(data, cur) ==
    Bind(read_bits(data, cur, 8),
         LAMBDA r :
            Bind(v_vint_more(data, r.cur, r.val, Shr(r.val % 128, 1), 6),
                 LAMBDA m : Ok(m.cur, IF r.val % 2 = 1 THEN 0 - m.val ELSE m.val)))

RECURSIVE BigEndian(_)
BigEndian(bytes) ==
    IF bytes = <<>> THEN 0
    ELSE bytes[Len(bytes)] + 256 * BigEndian(SubSeq(bytes, 1, Len(bytes) - 1))

v_fixed(data, cur, n) ==
    Bind(read_aligned_bytes(data, cur, n), LAMBDA r : Ok(r.cur, BigEndian(r.val)))

RECURSIVE v_skip(_, _)
RECURSIVE v_skip_n(_, _, _, _)

\* skip n values, each preceded by a vint field tag when tagged
v_skip_n(data, cur, n, tagged) ==
    IF n <= 0 THEN Ok(cur, 0)
    ELSE Bind(IF tagged THEN v_vint(data, cur) ELSE Ok(cur, 0),
              LAMBDA t : Bind(v_skip(data, t.cur),
                              LAMBDA s : v_skip_n(data, s.cur, n - 1, tagged)))

v_skip(data, cur) ==
    Bind(read_bits(data, cur, 8),
         LAMBDA k :
            CASE k.val = 0 ->
                    Bind(v_vint(data, k.cur),
                         LAMBDA n : v_skip_n(data, n.cur, n.val, FALSE))
              [] k.val = 1 ->
                    Bind(v_vint(data, k.cur),
                         LAMBDA n : read_aligned_bytes(data, n.cur, (n.val + 7) \div 8))
              [] k.val = 2 ->
                    Bind(v_vint(data, k.cur),
                         LAMBDA n : read_aligned_bytes(data, n.cur, n.val))
              [] k.val = 3 ->
                    Bind(v_vint(data, k.cur), LAMBDA n : v_skip(data, n.cur))
              [] k.val = 4 ->
                    Bind(read_bits(data, k.cur, 8),
                         LAMBDA e : IF e.val # 0 THEN v_skip(data, e.cur) ELSE e)
              [] k.val = 5 ->
                    Bind(v_vint(data, k.cur),
                         LAMBDA n : v_skip_n(data, n.cur, n.val, TRUE))
              [] k.val = 6 -> read_aligned_bytes(data, k.cur, 1)
              [] k.val = 7 -> read_aligned_bytes(data, k.cur, 4)
              [] k.val = 8 -> read_aligned_bytes(data, k.cur, 8)
              [] k.val = 9 -> v_vint(data, k.cur)
              [] OTHER -> Fail("CorruptedError", k.cur))

RECURSIVE v_instance(_, _, _, _)
RECURSIVE v_struct(_, _, _, _, _, _)

\* the kind byte of the next value, which must be the one the schema expects
v_expect(data, cur, kind) ==
    Bind(read_bits(data, cur, 8),
         LAMBDA k : IF k.val # kind THEN Fail("CorruptedError", k.cur) ELSE k)

v_int(data, cur, bounds) ==
    Bind(read_bits(data, cur, 8),
         LAMBDA k :
            Bind(CASE k.val = 6 -> v_fixed(data, k.cur, 1)
                   [] k.val = 7 -> v_fixed(data, k.cur, 4)
                   [] k.val = 8 -> v_fixed(data, k.cur, 8)
                   [] k.val = 9 -> v_vint(data, k.cur)
                   [] OTHER -> Fail("CorruptedError", k.cur),
                 LAMBDA m : Ok(m.cur, bounds.offset + m.val)))

v_blob(data, cur) ==
    Bind(v_expect(data, cur, 2),
         LAMBDA k : Bind(v_vint(data, k.cur),
                         LAMBDA n : read_aligned_bytes(data, n.cur, n.val)))

v_choice(ti, data, cur, d) ==
    Bind(v_expect(data, cur, 3),
         LAMBDA k :
            Bind(v_vint(data, k.cur),
                 LAMBDA tag :
                    IF tag.val \notin DOMAIN d.cases
                    THEN Fail("CorruptedError", tag.cur)
                    ELSE Bind(v_instance(ti, data, tag.cur, d.cases[tag.val].typeid),
                              LAMBDA v : Ok(v.cur, Put(EmptyDict,
                                                       d.cases[tag.val].name, v.val)))))

\* the schema's field with wire tag t, as a set: empty when there is none
FieldsTagged(fields, t) == {i \in 1..Len(fields) : fields[i].tag = t}

\* n wire fields left; a field whose tag the schema lacks is skipped
v_struct(ti, data, cur, fields, n, acc) ==
    IF n <= 0 THEN Ok(cur, acc)
    ELSE Bind(v_vint(data, cur),
              LAMBDA tag :
                 IF FieldsTagged(fields, tag.val) = {}
                 THEN Bind(v_skip(data, tag.cur),
                           LAMBDA s : v_struct(ti, data, s.cur, fields, n - 1, acc))
                 ELSE Bind(v_instance(ti, data, tag.cur,
                                      fields[CHOOSE i \in FieldsTagged(fields, tag.val) :
                                                TRUE].typeid),
                           LAMBDA v :
                              v_struct(ti, data, v.cur, fields, n - 1,
                                       Put(acc,
                                           fields[CHOOSE i \in
                                                    FieldsTagged(fields, tag.val) :
                                                    TRUE].name,
                                           v.val))))

v_instance(ti, data, cur, typeid) ==
    CASE ti[typeid].t = "_int" -> v_int(data, cur, ti[typeid])
      [] ti[typeid].t = "_blob" -> v_blob(data, cur)
      [] ti[typeid].t = "_choice" -> v_choice(ti, data, cur, ti[typeid])
      [] ti[typeid].t = "_struct" ->
            Bind(v_expect(data, cur, 5),
                 LAMBDA k :
                    Bind(v_vint(data, k.cur),
                         LAMBDA n : v_struct(ti, data, n.cur, ti[typeid].fields,
                                             n.val, EmptyDict)))

\* decoder.instance(typeid) on either decoder class
instance(class, ti, data, cur, typeid) ==
    IF class = "VersionedDecoder" THEN v_instance(ti, data, cur, typeid)
    ELSE bp_instance(ti, data, cur, typeid)

(***************************************************************************)
(* Protocol table sets (spec 3.4), one per build: heroprotocol.protocols.  *)
(* protocol<build>.  The tables have the shape of the shipped ones with    *)
(* narrower integers, so that whole events fit in a few bytes.             *)
(***************************************************************************)
IntType(offset, bits) == [t |-> "_int", offset |-> offset, bits |-> bits]

BlobType(offset, bits) == [t |-> "_blob", offset |-> offset, bits |-> bits]

ChoiceType(offset, bits, cases) ==
    [t |-> "_choice", offset |-> offset, bits |-> bits, cases |-> cases]

StructType(fields) == [t |-> "_struct", fields |-> fields]

Field(name, typeid, tag) == [name |-> name, typeid |-> typeid, tag |-> tag]

Case(name, typeid) == [name |-> name, typeid |-> typeid]

EventType(typeid, typename) == [typeid |-> typeid, typename |-> typename]

NarrowTypeInfos ==
    0 :> IntType(0, 2)
    @@ 1 :> IntType(0, 4)
    @@ 2 :> IntType(0, 6)
    @@ 3 :> IntType(0, 8)
    @@ 4 :> ChoiceType(0, 2, 0 :> Case("m_uint6", 0) @@ 1 :> Case("m_uint14", 1)
                         @@ 2 :> Case("m_uint22", 2) @@ 3 :> Case("m_uint32", 3))
    @@ 5 :> StructType(<<Field("m_userId", 0, 0)>>)
    @@ 6 :> IntType(0, 2)
    @@ 7 :> StructType(<<>>)
    @@ 8 :> StructType(<<Field("m_x", 0, 0), Field("m_data", 9, 1)>>)
    @@ 9 :> BlobType(0, 1)
    @@ 10 :> IntType(0, 1)
    @@ 11 :> StructType(<<Field("m_recipient", 0, 0)>>)
    @@ 12 :> StructType(<<Field("m_a", 3, 0), Field("m_b", 3, 1)>>)

NarrowProtocol ==
    [typeinfos |-> NarrowTypeInfos,
     svaruint32_typeid |-> 4,
     replay_userid_typeid |-> 5,
     game_eventid_typeid |-> 6,
     game_event_types |->
         0 :> EventType(7, "NNet.Game.SUserFinishedLoadingSyncEvent")
         @@ 1 :> EventType(8, "NNet.Game.SUserOptionsEvent"),
     message_eventid_typeid |-> 10,
     message_event_types |-> 0 :> EventType(11, "NNet.Game.SChatMessage"),
     tracker_eventid_typeid |-> 6,
     tracker_event_types |->
         0 :> EventType(7, "NNet.Replay.Tracker.SPlayerSetupEvent")
         @@ 1 :> EventType(12, "NNet.Replay.Tracker.SUnitBornEvent")]

\* a table set within the schema's invariants whose framing types are all
\* zero bits wide: IntType(offset, 0) decodes to offset and reads nothing
ZeroWidthTypeInfos ==
    0 :> IntType(0, 0)
    @@ 1 :> ChoiceType(0, 0, 0 :> Case("m_uint6", 0))
    @@ 2 :> StructType(<<Field("m_userId", 0, 0)>>)
    @@ 3 :> StructType(<<>>)

ZeroWidthProtocol ==
    [typeinfos |-> ZeroWidthTypeInfos,
     svaruint32_typeid |-> 1,
     replay_userid_typeid |-> 2,
     game_eventid_typeid |-> 0,
     game_event_types |-> 0 :> EventType(3, "NNet.Game.SUserFinishedLoadingSyncEvent"),
     message_eventid_typeid |-> 0,
     message_event_types |-> 0 :> EventType(3, "NNet.Game.SChatMessage"),
     tracker_eventid_typeid |-> 0,
     tracker_event_types |-> 0 :> EventType(3, "NNet.Replay.Tracker.SPlayerSetupEvent")]

\* build -> table set: the modules heroprotocol.protocols.protocol<build>.
\* 29406 is the build heroprotocol.py itself imports; build 1 stands for a
\* table set no shipped module has, the zero-width one
ProtocolModules == 29406 :> NarrowProtocol @@ 1 :> ZeroWidthProtocol

\* the least number of bits one framed event takes under table set p: the
\* discriminant and the narrowest case of svaruint32, the user id, the event id
FramingBits(p, with_user_id, eventid_typeid) ==
    LET ti == p.typeinfos
        sv == ti[p.svaruint32_typeid]
        uid == ti[p.replay_userid_typeid]
        narrowest == CHOOSE w \in {ti[sv.cases[c].typeid].bits : c \in DOMAIN sv.cases} :
                        \A c \in DOMAIN sv.cases : w <= ti[sv.cases[c].typeid].bits
    IN sv.bits + narrowest
       + (IF with_user_id THEN ti[uid.fields[1].typeid].bits ELSE 0)
       + ti[eventid_typeid].bits

(***************************************************************************)
(* Inner files the archive may hold.                                       *)
(***************************************************************************)
\* low bits first: choice tag (2), delta, user id (2), event id (2)
\*   1: tag 1, delta 0 on 4 bits, user 0, event id in the next byte
\*  28: delta 3, user 1, event 0      68: delta 1, user 0, event 1
\* 128: delta 0, user 0, event 2 (in no event-type map)
ByteAlphabet == {1, 28, 68, 128}

BitPackedFiles == SeqsUpTo(ByteAlphabet, MaxBytes)

\* versioned wire fragments: an event with delta +1, one with delta -1, one
\* with a u8 delta, two struct fields of which one is unknown to the schema,
\* an event with event id 3, a truncated event, a value of the wrong kind
TrackerChunks ==
    {<<3, 0, 9, 2, 9, 0, 5, 0>>,
     <<3, 0, 9, 3, 9, 0, 5, 0>>,
     <<3, 2, 6, 5, 9, 2, 5, 4, 0, 9, 4, 8, 6, 7>>,
     <<3, 0, 9, 0, 9, 6, 5, 0>>,
     <<3, 0, 9>>,
     <<7>>}

VersionedFiles == {Concat(cs) : cs \in SeqsUpTo(TrackerChunks, MaxChunks)}

(***************************************************************************)
(* State.                                                                  *)
(***************************************************************************)
VARIABLES
    \* the facade: the archive header's m_version.m_baseBuild, whether the
    \* instance has the attribute _protocol, and the build whose module it holds
    archive_build, has_protocol, _protocol,
    \* the last access of the protocol property: its caller, what it raised
    \* ("" when it returned), how many headers it has decoded and how many
    \* modules it has imported since construction
    last_op, last_err, header_decodes, imports,
    \* the event generator: the operation that made it, its decoder (class,
    \* contents, cursor) and the arguments of _decode_event_stream
    op, class, data, cur, eventid_typeid, event_types, decode_user_id,
    \* where the generator stands and what it raised
    pc, err,
    \* the locals of _decode_event_stream
    gameloop, start_bits, delta, userid, eventid, typeid, typename, event,
    \* what the consumer of the generator has seen: the number of events
    \* (saturating), the sum of their '_bits', the '_gameloop' of the event it
    \* took last, and the decoder.instance calls of the current iteration
    seen, sum_bits, last_gameloop, reads,
    \* decode_replay_attributes_events: position, buffer, cursor, result, the
    \* locals scope and value of the last entry, the four bytes read for it and
    \* what the call raised
    a_pc, a_data, a_cur, attributes, scope, value, raw, a_err,
    \* accesses of the protocol property since construction
    accesses,
    \* the unit-tag helpers: the arguments, whether the helpers have run, and
    \* the tag and the two fields taken from it as binary digits
    t_index, t_recycle, t_called, tag, tag_index, tag_recycle

facadeVars == <<archive_build, has_protocol, _protocol, last_op, last_err,
                header_decodes, imports, accesses>>

streamVars == <<op, class, data, eventid_typeid, event_types, decode_user_id>>

localVars == <<gameloop, start_bits, delta, userid, eventid, typeid, typename, event>>

seenVars == <<seen, sum_bits, last_gameloop>>

framerVars == <<streamVars, cur, pc, err, localVars, seenVars, reads>>

attrVars == <<a_pc, a_data, a_cur, attributes, scope, value, raw, a_err>>

tagVars == <<t_index, t_recycle, t_called, tag, tag_index, tag_recycle>>

vars == <<facadeVars, framerVars, attrVars, tagVars>>

\* what an operation on one part of the facade leaves alone
notFramer == <<facadeVars, attrVars, tagVars>>

notFacade == <<framerVars, attrVars, tagVars>>

notAttr == <<facadeVars, framerVars, tagVars>>

notTag == <<facadeVars, framerVars, attrVars>>

(***************************************************************************)
(* Names and exceptions.                                                   *)
(***************************************************************************)
\* the names the module heroprotocol.py binds at top level
ModuleNames ==
    {"MPQArchive", "import_module", "protocol29406", "ProtocolNotFound",
     "BitPackedBuffer", "BitPackedDecoder", "VersionedDecoder", "HeroProtocol"}

\* raise name(...): evaluating a name the module does not bind raises
\* NameError instead
Raise(name) == IF name \in ModuleNames THEN name ELSE "NameError"

(***************************************************************************)
(* The event-stream framer.                                                *)
(***************************************************************************)
\* self.protocol with the module cached
protocol == ProtocolModules[_protocol]

GeneratorIdle ==
    /\ op = "" /\ class = "" /\ data = <<>> /\ cur = NewBuffer
    /\ eventid_typeid = 0 /\ event_types = EmptyDict /\ decode_user_id = FALSE
    /\ pc = "idle" /\ err = ""
    /\ gameloop = 0 /\ start_bits = 0 /\ delta = 0 /\ userid = EmptyDict
    /\ eventid = 0 /\ typeid = 0 /\ typename = "" /\ event = EmptyDict
    /\ seen = 0 /\ sum_bits = 0 /\ last_gameloop = 0 /\ reads = <<>>

\* the call of _decode_event_stream and the first next() on it
StartStream(name, cls, contents, eid_typeid, types, user_id) ==
    /\ pc = "idle"
    /\ op' = name
    /\ class' = cls
    /\ data' = contents
    /\ cur' = NewBuffer
    /\ eventid_typeid' = eid_typeid
    /\ event_types' = types
    /\ decode_user_id' = user_id
    /\ gameloop' = 0
    /\ pc' = "while"
    /\ UNCHANGED <<err, start_bits, delta, userid, eventid, typeid, typename, event,
                   seenVars, reads, notFramer>>

\* the game stream decoded without user ids
game_decode_user_id_off == FALSE

game_decode_user_id == TRUE

message_decode_user_id == TRUE

tracker_decode_user_id == FALSE

decode_replay_game_events ==
    \E contents \in BitPackedFiles :
        StartStream("decode_replay_game_events", "BitPackedDecoder", contents,
                    protocol.game_eventid_typeid, protocol.game_event_types,
                    game_decode_user_id)

decode_replay_message_events ==
    \E contents \in BitPackedFiles :
        StartStream("decode_replay_message_events", "BitPackedDecoder", contents,
                    protocol.message_eventid_typeid, protocol.message_event_types,
                    message_decode_user_id)

decode_replay_tracker_events ==
    \E contents \in VersionedFiles :
        StartStream("decode_replay_tracker_events", "VersionedDecoder", contents,
                    protocol.tracker_eventid_typeid, protocol.tracker_event_types,
                    tracker_decode_user_id)

\* decoder.instance(typeid) on the generator's decoder
Decode(t) == instance(class, protocol.typeinfos, data, cur, t)

\* an exception leaves the generator: it is finished
Abort(e) ==
    /\ pc' = "error"
    /\ err' = e

_varuint32_value(choice) ==
    IF DOMAIN choice = {} THEN 0 ELSE choice[CHOOSE k \in DOMAIN choice : TRUE]

\* while True
loop_condition_forever(d, c) == TRUE

\* while not decoder.done()
loop_condition(d, c) == ~done(d, c)

\* gameloop = delta
add_delta_overwrite(g, d) == d

\* gameloop += delta
add_delta(g, d) == g + d

\* decoder.used_bits(), start_bits forgotten
event_bits_total(c, start) == used_bits(c)

\* decoder.used_bits() - start_bits
event_bits(c, start) == used_bits(c) - start

\* event['_event'] = typename ... event['_userid'] = userid
with_synthetic_fields(struct, name, id, loop, user_id, user) ==
    IF user_id
    THEN Put(Put(Put(Put(struct, "_event", name), "_eventid", id), "_gameloop", loop),
             "_userid", user)
    ELSE Put(Put(Put(struct, "_event", name), "_eventid", id), "_gameloop", loop)

\* while not decoder.done(): start_bits = decoder.used_bits()
LoopTest ==
    /\ pc = "while"
    /\ IF loop_condition(data, cur)
       THEN /\ start_bits' = used_bits(cur)
            /\ reads' = <<>>
            /\ pc' = "delta"
       ELSE /\ pc' = "end"
            /\ UNCHANGED <<start_bits, reads>>
    /\ UNCHANGED <<streamVars, cur, err, gameloop, delta, userid, eventid, typeid,
                   typename, event, seenVars, notFramer>>

DecodeDelta ==
    /\ pc = "delta"
    /\ \E r \in {Decode(protocol.svaruint32_typeid)} :
          IF r.err # ""
          THEN /\ Abort(r.err)
               /\ UNCHANGED <<cur, delta, gameloop, reads>>
          ELSE /\ cur' = r.cur
               /\ delta' = _varuint32_value(r.val)
               /\ gameloop' = add_delta(gameloop, _varuint32_value(r.val))
               /\ reads' = Append(reads, [typeid |-> protocol.svaruint32_typeid,
                                          val |-> r.val])
               /\ pc' = IF decode_user_id THEN "userid" ELSE "eventid"
               /\ err' = err
    /\ UNCHANGED <<streamVars, start_bits, userid, eventid, typeid, typename, event,
                   seenVars, notFramer>>

DecodeUserId ==
    /\ pc = "userid"
    /\ \E r \in {Decode(protocol.replay_userid_typeid)} :
          IF r.err # ""
          THEN /\ Abort(r.err)
               /\ UNCHANGED <<cur, userid, reads>>
          ELSE /\ cur' = r.cur
               /\ userid' = r.val
               /\ reads' = Append(reads, [typeid |-> protocol.replay_userid_typeid,
                                          val |-> r.val])
               /\ pc' = "eventid"
               /\ err' = err
    /\ UNCHANGED <<streamVars, gameloop, start_bits, delta, eventid, typeid, typename,
                   event, seenVars, notFramer>>

DecodeEventId ==
    /\ pc = "eventid"
    /\ \E r \in {Decode(eventid_typeid)} :
          IF r.err # ""
          THEN /\ Abort(r.err)
               /\ UNCHANGED <<cur, eventid, reads>>
          ELSE /\ cur' = r.cur
               /\ eventid' = r.val
               /\ reads' = Append(reads, [typeid |-> eventid_typeid, val |-> r.val])
               /\ pc' = "lookup"
               /\ err' = err
    /\ UNCHANGED <<streamVars, gameloop, start_bits, delta, userid, typeid, typename,
                   event, seenVars, notFramer>>

\* typeid, typename = event_types.get(eventid, (None, None)); None is -1 / ""
Lookup ==
    /\ pc = "lookup"
    /\ IF eventid \in DOMAIN event_types
       THEN /\ typeid' = event_types[eventid].typeid
            /\ typename' = event_types[eventid].typename
            /\ pc' = "event"
            /\ err' = err
       ELSE /\ typeid' = -1
            /\ typename' = ""
            /\ Abort(Raise("CorruptedError"))
    /\ UNCHANGED <<streamVars, cur, gameloop, start_bits, delta, userid, eventid,
                   event, seenVars, reads, notFramer>>

DecodeEvent ==
    /\ pc = "event"
    /\ \E r \in {Decode(typeid)} :
          IF r.err # ""
          THEN /\ Abort(r.err)
               /\ UNCHANGED <<cur, event, reads>>
          ELSE /\ cur' = r.cur
               /\ event' = with_synthetic_fields(r.val, typename, eventid, gameloop,
                                                 decode_user_id, userid)
               /\ reads' = Append(reads, [typeid |-> typeid, val |-> r.val])
               /\ pc' = "align"
               /\ err' = err
    /\ UNCHANGED <<streamVars, gameloop, start_bits, delta, userid, eventid, typeid,
                   typename, seenVars, notFramer>>

\* decoder.byte_align(); event['_bits'] = ...; yield event
AlignAndYield ==
    /\ pc = "align"
    /\ cur' = byte_align(cur)
    /\ event' = Put(event, "_bits", event_bits(byte_align(cur), start_bits))
    /\ pc' = "yield"
    /\ seen' = Min(seen + 1, MaxSeen)
    /\ sum_bits' = sum_bits + event_bits(byte_align(cur), start_bits)
    /\ UNCHANGED <<streamVars, err, gameloop, start_bits, delta, userid, eventid,
                   typeid, typename, last_gameloop, reads, notFramer>>

\* the consumer's next(): the generator resumes after the yield
Resume ==
    /\ pc = "yield"
    /\ pc' = "while"
    /\ last_gameloop' = event["_gameloop"]
    /\ UNCHANGED <<streamVars, cur, err, localVars, seen, sum_bits, reads, notFramer>>

Next ==
    \/ decode_replay_game_events
    \/ decode_replay_message_events
    \/ decode_replay_tracker_events
    \/ LoopTest
    \/ DecodeDelta
    \/ DecodeUserId
    \/ DecodeEventId
    \/ Lookup
    \/ DecodeEvent
    \/ AlignAndYield
    \/ Resume

(***************************************************************************)
(* The protocol property of the facade.                                    *)
(***************************************************************************)
\* callers of self.protocol
ProtocolUsers ==
    {"decode_header", "decode_replay_details", "decode_replay_initdata",
     "decode_replay_game_events", "decode_replay_message_events",
     "decode_replay_tracker_events"}

\* base builds a replay header may carry: with and without a module
ArchiveBuilds == DOMAIN ProtocolModules \cup {39271, 40000, 12345, 0}

\* the attribute never found: every access resolves again
never_cached(has) == FALSE

\* try: return self._protocol / except AttributeError
has_cached(has) == has

\* import_module('heroprotocol.protocols.protocol{}'.format(base_build))
import_module(base_build) ==
    IF base_build \in DOMAIN ProtocolModules
    THEN [exc |-> "", module |-> base_build]
    ELSE [exc |-> "ImportError", module |-> 0]

\* except NameError: raise ProtocolNotFound(...); anything else propagates
except_NameError(exc) ==
    IF exc = "NameError" THEN Raise("ProtocolNotFound") ELSE exc

protocol_get ==
    \E caller \in ProtocolUsers :
        /\ accesses < MaxAccesses
        /\ accesses' = accesses + 1
        /\ last_op' = caller
        /\ IF has_cached(has_protocol)
           THEN /\ last_err' = ""
                /\ UNCHANGED <<has_protocol, _protocol, header_decodes, imports>>
           ELSE LET base_build == archive_build
                    m == import_module(base_build)
                IN /\ header_decodes' = header_decodes + 1
                   /\ imports' = imports + 1
                   /\ IF m.exc = ""
                      THEN /\ has_protocol' = TRUE
                           /\ _protocol' = m.module
                           /\ last_err' = ""
                      ELSE /\ last_err' = except_NameError(m.exc)
                           /\ UNCHANGED <<has_protocol, _protocol>>
        /\ UNCHANGED <<archive_build, notFacade>>

(***************************************************************************)
(* decode_replay_attributes_events.                                        *)
(***************************************************************************)
\* s.strip('\x00') in two halves: leading, then trailing NUL bytes
RECURSIVE lstrip(_)
lstrip(s) == IF s # <<>> /\ Head(s) = 0 THEN lstrip(Tail(s)) ELSE s

RECURSIVE rstrip(_)
rstrip(s) ==
    IF s # <<>> /\ s[Len(s)] = 0 THEN rstrip(SubSeq(s, 1, Len(s) - 1)) ELSE s

strip(s) == rstrip(lstrip(s))

\* read_aligned_bytes(4).strip('\x00'), the [::-1] forgotten
attribute_value_unreversed(bytes) == strip(bytes)

\* read_aligned_bytes(4)[::-1].strip('\x00')
attribute_value(bytes) == strip(Reverse(bytes))

AttrIdle ==
    /\ a_pc = "idle" /\ a_data = <<>> /\ a_cur = NewBuffer
    /\ attributes = EmptyDict /\ scope = 0 /\ value = EmptyDict /\ raw = <<>>
    /\ a_err = ""

\* source 1, mapNamespace 999, count
AttrHeader == <<1>> \o <<231, 3, 0, 0>> \o <<2, 0, 0, 0>>

\* namespace 999, attrid 500 or 3000, scope 16 or 1, four value bytes
AttrEntries ==
    {<<231, 3, 0, 0>> \o <<244, 1, 0, 0>> \o <<16>> \o v : v \in [1..4 -> {0, 65}]}
    \cup {<<231, 3, 0, 0>> \o <<244, 1, 0, 0>> \o <<1>> \o <<65, 65, 65, 65>>,
          <<231, 3, 0, 0>> \o <<184, 11, 0, 0>> \o <<16>> \o <<0, 65, 65, 0>>}

AttrFiles ==
    {<<>>}
    \cup {SubSeq(f, 1, Len(f) - cut) :
            f \in {AttrHeader \o Concat(es) : es \in SeqsUpTo(AttrEntries, MaxAttrs)},
            cut \in {0, 2}}

\* source, mapNamespace, scopes = {} and the count read and dropped
attributes_header(contents, c) ==
    Bind(read_bits(contents, c, 8),
         LAMBDA source :
            Bind(read_bits(contents, source.cur, 32),
                 LAMBDA mapNamespace :
                    Bind(read_bits(contents, mapNamespace.cur, 32),
                         LAMBDA count :
                            Ok(count.cur,
                               Put(Put(Put(EmptyDict, "source", source.val),
                                       "mapNamespace", mapNamespace.val),
                                   "scopes", EmptyDict)))))

\* the reads of one entry: the dict value, the scope and the four bytes
attributes_entry(contents, c) ==
    Bind(read_bits(contents, c, 32),
         LAMBDA namespace :
            Bind(read_bits(contents, namespace.cur, 32),
                 LAMBDA attrid :
                    Bind(read_bits(contents, attrid.cur, 8),
                         LAMBDA sc :
                            Bind(read_aligned_bytes(contents, sc.cur, 4),
                                 LAMBDA bytes :
                                    Ok(bytes.cur,
                                       [scope |-> sc.val,
                                        raw |-> bytes.val,
                                        value |->
                                           Put(Put(Put(EmptyDict,
                                                       "namespace", namespace.val),
                                                   "attrid", attrid.val),
                                               "value", attribute_value(bytes.val))])))))

\* attributes['scopes'][scope][attrid].append(value), the containers made on
\* demand
append_value(scopes, sc, attrid, v) ==
    IF sc \notin DOMAIN scopes
    THEN Put(scopes, sc, Put(EmptyDict, attrid, <<v>>))
    ELSE IF attrid \notin DOMAIN scopes[sc]
    THEN Put(scopes, sc, Put(scopes[sc], attrid, <<v>>))
    ELSE Put(scopes, sc, Put(scopes[sc], attrid, Append(scopes[sc][attrid], v)))

\* the call up to the entry loop
decode_replay_attributes_events ==
    /\ a_pc = "idle"
    /\ \E contents \in AttrFiles :
        /\ a_data' = contents
        /\ IF done(contents, NewBuffer)
           THEN /\ a_pc' = "return"
                /\ UNCHANGED <<a_cur, attributes, a_err>>
           ELSE \E h \in {attributes_header(contents, NewBuffer)} :
                   IF h.err # ""
                   THEN /\ a_pc' = "error"
                        /\ a_err' = h.err
                        /\ UNCHANGED <<a_cur, attributes>>
                   ELSE /\ a_pc' = "while"
                        /\ a_cur' = h.cur
                        /\ attributes' = h.val
                        /\ a_err' = a_err
    /\ UNCHANGED <<scope, value, raw, notAttr>>

\* one pass of while not bit_buffer.done()
AttrEntry ==
    /\ a_pc = "while"
    /\ IF done(a_data, a_cur)
       THEN /\ a_pc' = "return"
            /\ UNCHANGED <<a_cur, attributes, scope, value, raw, a_err>>
       ELSE \E e \in {attributes_entry(a_data, a_cur)} :
               IF e.err # ""
               THEN /\ a_pc' = "error"
                    /\ a_err' = e.err
                    /\ UNCHANGED <<a_cur, attributes, scope, value, raw>>
               ELSE /\ a_pc' = "while"
                    /\ a_cur' = e.cur
                    /\ scope' = e.val.scope
                    /\ value' = e.val.value
                    /\ raw' = e.val.raw
                    /\ attributes' =
                          Put(attributes, "scopes",
                              append_value(attributes["scopes"], e.val.scope,
                                           e.val.value["attrid"], e.val.value))
                    /\ a_err' = a_err
    /\ UNCHANGED <<a_data, notAttr>>

(***************************************************************************)
(* The unit-tag helpers.                                                   *)
(***************************************************************************)
\* (unit_tag_index << 14) + unit_tag_recycle
unit_tag_short(index, recycle) == AddB(ShlB(index, 14), recycle)

\* (unit_tag_index << 18) + unit_tag_recycle
unit_tag(index, recycle) == AddB(ShlB(index, 18), recycle)

\* (unit_tag >> 14) & 0x00003fff
unit_tag_index_short(t) == AndB(ShrB(t, 14), Bits(16383))

\* (unit_tag >> 18) & 0x00003fff
unit_tag_index(t) == AndB(ShrB(t, 18), Bits(16383))

\* (unit_tag) & 0x0003ffff
unit_tag_recycle(t) == AndB(t, Bits(262143))

\* arguments at both ends of the 14-bit and the 18-bit range, and past them
TagIndexes ==
    (0..TagSpread) \cup {Pow2(14) - k : k \in 1..TagSpread}
    \cup {Pow2(14) + k : k \in 0..TagSpread}

TagRecycles ==
    (0..TagSpread) \cup {Pow2(18) - k : k \in 1..TagSpread}
    \cup {Pow2(18) + k : k \in 0..TagSpread} \cup {Pow2(17)}

TagIdle ==
    /\ t_index = 0 /\ t_recycle = 0 /\ t_called = FALSE
    /\ tag = <<>> /\ tag_index = <<>> /\ tag_recycle = <<>>

\* the arguments of a call to come
TagArgs ==
    /\ t_index \in TagIndexes /\ t_recycle \in TagRecycles /\ t_called = FALSE
    /\ tag = <<>> /\ tag_index = <<>> /\ tag_recycle = <<>>

\* a tag packed from two arguments and taken apart again
PackUnpack ==
    /\ ~t_called
    /\ t_called' = TRUE
    /\ tag' = unit_tag(Bits(t_index), Bits(t_recycle))
    /\ tag_index' = unit_tag_index(unit_tag(Bits(t_index), Bits(t_recycle)))
    /\ tag_recycle' = unit_tag_recycle(unit_tag(Bits(t_index), Bits(t_recycle)))
    /\ UNCHANGED <<t_index, t_recycle, notTag>>

(***************************************************************************)
(* Specifications.                                                         *)
(***************************************************************************)
\* a facade just constructed over an archive
FacadeNew ==
    /\ archive_build \in ArchiveBuilds
    /\ has_protocol = FALSE /\ _protocol = 0
    /\ last_op = "" /\ last_err = ""
    /\ header_decodes = 0 /\ imports = 0 /\ accesses = 0

\* a facade whose protocol property has resolved
FacadeResolved ==
    /\ archive_build \in DOMAIN ProtocolModules
    /\ has_protocol = TRUE /\ _protocol = archive_build
    /\ last_op = "" /\ last_err = ""
    /\ header_decodes = 1 /\ imports = 1 /\ accesses = 1

\* the event generators of a facade
Init == FacadeResolved /\ GeneratorIdle /\ AttrIdle /\ TagIdle

Spec == Init /\ [][Next]_vars

\* the consumer takes events until the generator ends
FairSpec == Spec /\ WF_vars(Next)

\* the protocol property
FacadeInit == FacadeNew /\ GeneratorIdle /\ AttrIdle /\ TagIdle

FacadeNext == protocol_get

FacadeSpec == FacadeInit /\ [][FacadeNext]_vars

\* the attributes decoder
AttrInit == FacadeResolved /\ archive_build = 29406 /\ GeneratorIdle /\ AttrIdle /\ TagIdle

AttrNext == decode_replay_attributes_events \/ AttrEntry

AttrSpec == AttrInit /\ [][AttrNext]_vars

\* the unit-tag helpers
TagInit == FacadeResolved /\ archive_build = 29406 /\ GeneratorIdle /\ AttrIdle /\ TagArgs

TagNext == PackUnpack

TagSpec == TagInit /\ [][TagNext]_vars

(***************************************************************************)
(* Properties.                                                             *)
(***************************************************************************)
BitPackedStream == class = "BitPackedDecoder"

Finished == pc \in {"end", "error"}

\* C1: conservation of bits.  The '_bits' of a yielded event is the
\* decoder's used_bits() after the byte_align less its used_bits() when the
\* iteration began; no bit is consumed between a yield and the start of the
\* next iteration, so at every yield the '_bits' seen so far add up to
\* used_bits(), and when the sequence ends to the bit size of the inner file.
C1_BitsConserved ==
    /\ pc = "yield" =>
          /\ event["_bits"] = used_bits(cur) - start_bits
          /\ sum_bits = used_bits(cur)
          /\ cur.used_bits = 0
    /\ pc = "delta" => start_bits = sum_bits /\ start_bits = used_bits(cur)
    /\ pc = "end" => sum_bits = 8 * Len(data)

C1_Witness ==
    /\ pc = "end"
    /\ seen >= 2
    /\ event["_bits"] > 8
    /\ sum_bits = 8 * Len(data)

\* C2: an event id that is not a key of the event-type map aborts the decode
\* with the decoders' CorruptedError (the specification's CorruptedData).
C2_UnknownEventIsCorrupted ==
    (pc = "error" /\ typeid = -1) => err = "CorruptedError"

\* C3: when no module exists for the header's base build, an access of the
\* protocol property fails with ProtocolNotFound.
C3_UnregisteredIsProtocolNotFound ==
    (accesses > 0 /\ archive_build \notin DOMAIN ProtocolModules)
        => last_err = "ProtocolNotFound"

\* C4 as claimed: in every stream that decodes without error, tracker
\* streams included, '_gameloop' never decreases from one yielded event to
\* the next.
C4_MonotoneEveryStream ==
    (pc = "yield" /\ seen >= 2) => event["_gameloop"] >= last_gameloop

\* C4 as amended: the '_gameloop' of an event is that of the event before it
\* (0 before the first) plus the event's delta, and in a game or message
\* stream, whose decoder reads a delta as unsigned bits, it never decreases.
C4_MonotoneBitPacked ==
    pc = "yield" =>
        /\ event["_gameloop"] = last_gameloop + delta
        /\ BitPackedStream => event["_gameloop"] >= last_gameloop

C4_Witness ==
    /\ pc = "yield"
    /\ BitPackedStream
    /\ seen >= 2
    /\ last_gameloop > 0
    /\ event["_gameloop"] > last_gameloop

\* the bytes of s from its first to its last byte that is not NUL
Trimmed(s) ==
    IF \A i \in 1..Len(s) : s[i] = 0 THEN <<>>
    ELSE SubSeq(s, CHOOSE i \in 1..Len(s) : s[i] # 0 /\ \A j \in 1..(i - 1) : s[j] = 0,
                   CHOOSE i \in 1..Len(s) : s[i] # 0 /\ \A j \in (i + 1)..Len(s) : s[j] = 0)

\* the longest prefix of s that does not end in NUL
TrailingTrimmed(s) ==
    SubSeq(s, 1, CHOOSE n \in 0..Len(s) :
                    /\ (n > 0 => s[n] # 0)
                    /\ \A m \in (n + 1)..Len(s) : s[m] = 0)

LastOf(s) == s[Len(s)]

\* C5 as claimed: the 'value' of an attribute entry is the reversed raw
\* bytes with the trailing NUL bytes stripped.
C5_TrailingNulsStripped ==
    a_pc = "while" /\ raw # <<>> => value["value"] = TrailingTrimmed(Reverse(raw))

\* C5 as amended: the 'value' of an attribute entry is the reversed raw bytes
\* with the NUL bytes stripped at both ends, and that entry is the one
\* appended to scopes[scope][attrid].
C5_BothEndsStripped ==
    a_pc = "while" /\ raw # <<>> =>
        /\ value["value"] = Trimmed(Reverse(raw))
        /\ LastOf(attributes["scopes"][scope][value["attrid"]]) = value

C5_Witness ==
    /\ a_pc = "while"
    /\ raw = <<0, 65, 65, 0>>
    /\ value["value"] = <<65, 65>>
    /\ Len(attributes["scopes"][scope][value["attrid"]]) = 2

\* C6: once the protocol property has resolved, a later access returns the
\* cached module: it decodes no header, imports nothing, raises nothing, and
\* the cached module stays the one of the archive's base build.
C6_ProtocolCached ==
    [][has_protocol =>
          /\ has_protocol'
          /\ _protocol' = _protocol
          /\ _protocol' = archive_build
          /\ header_decodes' = header_decodes
          /\ imports' = imports
          /\ last_err' = ""]_vars

C6_Witness ==
    /\ has_protocol
    /\ accesses >= 3
    /\ header_decodes = 1
    /\ imports = 1

\* C7: for index below 2^14 and recycle below 2^18, taking a packed tag
\* apart gives the index and the recycle back.
C7_RoundTrip ==
    (t_called /\ t_index < Pow2(14) /\ t_recycle < Pow2(18)) =>
        /\ tag_index = Bits(t_index)
        /\ tag_recycle = Bits(t_recycle)

C7_Witness ==
    /\ t_called
    /\ t_index = Pow2(14) - 1
    /\ t_recycle = Pow2(18) - 1
    /\ tag_index = Bits(t_index)

\* (index << 18) | (recycle & 0x3ffff)
MaskedPack(index, recycle) == OrB(ShlB(index, 18), AndB(recycle, Bits(262143)))

\* C8 as claimed: for all non-negative arguments the packed tag is
\* (index << 18) | (recycle & 0x3ffff).
C8_PackMasksRecycle ==
    t_called => tag = MaskedPack(Bits(t_index), Bits(t_recycle))

\* C8 as amended: for a recycle below 2^18 and any non-negative index the
\* packed tag is (index << 18) | (recycle & 0x3ffff), and its bits from 18 up
\* are the index.
C8_PackInRange ==
    (t_called /\ t_recycle < Pow2(18)) =>
        /\ tag = MaskedPack(Bits(t_index), Bits(t_recycle))
        /\ ShrB(tag, 18) = Bits(t_index)

C8_Witness ==
    /\ t_called
    /\ t_recycle = Pow2(18) - 1
    /\ t_index > Pow2(14)
    /\ ShrB(tag, 18) = Bits(t_index)

WithUserId == op \in {"decode_replay_game_events", "decode_replay_message_events"}

\* C9: a yielded event carries '_event' (the typename of its event id),
\* '_eventid', '_gameloop' and '_bits'; a game or message event also carries
\* '_userid', the value decoded at replay_userid_typeid between the delta and
\* the event id; for a tracker event no user id is read and none is inserted.
C9_SyntheticFields ==
    pc = "yield" =>
        /\ {"_event", "_eventid", "_gameloop", "_bits"} \subseteq DOMAIN event
        /\ event["_eventid"] \in DOMAIN event_types
        /\ event["_event"] = event_types[event["_eventid"]].typename
        /\ reads[1].typeid = protocol.svaruint32_typeid
        /\ IF WithUserId
           THEN /\ Len(reads) = 4
                /\ reads[2].typeid = protocol.replay_userid_typeid
                /\ reads[3].typeid = eventid_typeid
                /\ reads[3].val = event["_eventid"]
                /\ "_userid" \in DOMAIN event
                /\ event["_userid"] = reads[2].val
           ELSE /\ Len(reads) = 3
                /\ reads[2].typeid = eventid_typeid
                /\ reads[2].val = event["_eventid"]
                /\ "_userid" \notin DOMAIN event

C9_Witness ==
    /\ pc = "yield"
    /\ op = "decode_replay_game_events"
    /\ event["_userid"] = Put(EmptyDict, "m_userId", 1)
    /\ event["_event"] = "NNet.Game.SUserFinishedLoadingSyncEvent"

\* C10 as claimed: whatever the buffer and the table set, a consumer that
\* keeps taking events sees the sequence end or abort.
C10_Terminates == <>Finished

\* one framed event takes at least one bit: always on the versioned wire,
\* and on the bit-packed wire unless the framing types are all zero bits wide
Progresses ==
    class = "VersionedDecoder"
    \/ FramingBits(protocol, decode_user_id, eventid_typeid) > 0

\* C10 as amended: when one framed event takes at least one bit the sequence
\* ends or aborts; an empty buffer ends it with no event; and once it has
\* ended or aborted nothing more is yielded.
C10_TerminatesWhenFramed ==
    /\ (pc = "while" /\ Progresses) ~> Finished
    /\ [][(pc = "while" /\ data = <<>>) => (pc' = "end" /\ seen' = 0)]_vars
    /\ [][Finished => UNCHANGED <<pc, seen, sum_bits>>]_vars

C10_Witness ==
    /\ pc = "end"
    /\ Progresses
    /\ BitPackedStream
    /\ seen >= 3

=============================================================================
